---- MODULE Spec2Model ----
(***************************************************************************)
(* A model of quantecon/asset_pricing.py: the class AssetPrices, which     *)
(* prices a Lucas tree, a consol bond and a call option on the consol in   *)
(* an endowment economy driven by a finite Markov chain.                   *)
(*                                                                         *)
(* Numbers are exact rationals <<num, den>> in lowest terms with den > 0;  *)
(* the two infinities of a float are <<1, 0>> and <<-1, 0>>.  numpy arrays *)
(* are objects on a heap (a sequence of array values addressed by index),  *)
(* so that a name bound to an array and a dictionary entry holding the     *)
(* same array share it, as they do in Python.  A vector is a sequence of   *)
(* numbers and a matrix a sequence of rows.  gamma ranges over integers,   *)
(* so that s ** (-gamma) stays rational.                                   *)
(***************************************************************************)
EXTENDS Integers, Sequences, FiniteSets, TLC

VARIABLES engine, heap, pc, args, P_check, v_bar, w_bar, error, t, w_bars,
          hist, ret, kept

vars == <<engine, heap, pc, args, P_check, v_bar, w_bar, error, t, w_bars,
          hist, ret, kept>>

\* The model stops following the while loop after this many updates.
MaxIter == 4

-----------------------------------------------------------------------------
(* Exact arithmetic standing for Python / numpy float arithmetic.          *)

Abs(x) == IF x < 0 THEN -x ELSE x

\* The numbers: pairs <<num, den>>
Rat == Int \X Int

\* Arithmetic is written as functions, which take their arguments by value
GCD[a \in Nat, b \in Nat] == IF b = 0 THEN a ELSE GCD[b, a % b]

Norm(n, d) ==
  LET g == GCD[Abs(n), Abs(d)]
      sg == IF d < 0 THEN -1 ELSE 1
  IN  <<sg * (n \div g), sg * (d \div g)>>

Zero == <<0, 1>>
One == <<1, 1>>
PosInf == <<1, 0>>
NegInf == <<-1, 0>>

IsFinite(a) == a[2] # 0

\* a + b; an infinity absorbs a finite term
RAdd[a \in Rat, b \in Rat] ==
  IF a[2] = 0 THEN a
  ELSE IF b[2] = 0 THEN b
  ELSE LET g == GCD[a[2], b[2]]
       IN  Norm(a[1] * (b[2] \div g) + b[1] * (a[2] \div g), (a[2] \div g) * b[2])
RNeg[a \in Rat] == <<-a[1], a[2]>>
RSub[a \in Rat, b \in Rat] == RAdd[a, RNeg[b]]
RMul[a \in Rat, b \in Rat] == Norm(a[1] * b[1], a[2] * b[2])
RInv[a \in Rat] == Norm(a[2], a[1])
RDiv[a \in Rat, b \in Rat] == RMul[a, RInv[b]]
RAbs[a \in Rat] == <<Abs(a[1]), a[2]>>
\* a > b on floats: nothing is greater than +inf, nothing smaller than -inf
RGt[a \in Rat, b \in Rat] ==
  IF a[2] = 0 /\ b[2] = 0 THEN a[1] > b[1]
  ELSE IF a[2] = 0 THEN a[1] > 0
  ELSE IF b[2] = 0 THEN b[1] < 0
  ELSE LET g == GCD[a[2], b[2]]
       IN  a[1] * (b[2] \div g) > b[1] * (a[2] \div g)
RGe[a \in Rat, b \in Rat] == ~RGt[b, a]
RLe[a \in Rat, b \in Rat] == ~RGt[a, b]
RLt[a \in Rat, b \in Rat] == RGt[b, a]
RMax[a \in Rat, b \in Rat] == IF RGt[b, a] THEN b ELSE a

\* x ** k for an integer k and x # 0
RPow[x \in Rat, k \in Int] ==
  IF k = 0 THEN One
  ELSE IF k < 0 THEN RPow[RInv[x], -k]
  ELSE RMul[x, RPow[x, k - 1]]

RSum[v \in Seq(Rat)] == IF v = <<>> THEN Zero ELSE RAdd[v[1], RSum[Tail(v)]]

\* np.amax of a non-empty vector
RMaxOf[v \in Seq(Rat)] == IF Len(v) = 1 THEN v[1] ELSE RMax[v[1], RMaxOf[Tail(v)]]

-----------------------------------------------------------------------------
(* numpy array operations on array values.  Where numpy would raise, the  *)
(* Can... predicate beside the operation is false.                         *)

Rows(M) == Len(M)
Cols(M) == Len(M[1])

\* v ** k, elementwise
VPow(v, k) == [j \in 1..Len(v) |-> RPow[v[j], k]]

\* Whether shapes (r, c) and (m,) broadcast together
CanBroadcast(M, v) == Cols(M) = Len(v) \/ Len(v) = 1 \/ Cols(M) = 1

\* M * v for a 2-d M and a 1-d v under numpy's broadcasting rules
MulBroadcast(M, v) ==
  IF Cols(M) = Len(v)
    THEN [i \in 1..Rows(M) |-> [j \in 1..Cols(M) |-> RMul[M[i][j], v[j]]]]
  ELSE IF Len(v) = 1
    THEN [i \in 1..Rows(M) |-> [j \in 1..Cols(M) |-> RMul[M[i][j], v[1]]]]
  ELSE [i \in 1..Rows(M) |-> [j \in 1..Len(v) |-> RMul[M[i][1], v[j]]]]

\* np.identity(n), np.ones(n), np.zeros(n)
Identity(n) == [i \in 1..n |-> [j \in 1..n |-> IF i = j THEN One ELSE Zero]]
Ones(n) == [i \in 1..n |-> One]
Zeros(n) == [i \in 1..n |-> Zero]

\* c * M and c * v for a scalar c
MScale(c, M) == [i \in 1..Rows(M) |-> [j \in 1..Cols(M) |-> RMul[c, M[i][j]]]]
VScale(c, v) == [i \in 1..Len(v) |-> RMul[c, v[i]]]

\* A - B for an (n, n) array A and an (n, c) array B; the shapes broadcast
\* when c = n, c = 1 or n = 1
CanMSub(A, B) == Cols(A) = Cols(B) \/ Cols(B) = 1 \/ Cols(A) = 1
MSub(A, B) ==
  IF Cols(A) = Cols(B)
    THEN [i \in 1..Rows(A) |-> [j \in 1..Cols(A) |-> RSub[A[i][j], B[i][j]]]]
  ELSE IF Cols(B) = 1
    THEN [i \in 1..Rows(A) |-> [j \in 1..Cols(A) |-> RSub[A[i][j], B[i][1]]]]
  ELSE [i \in 1..Rows(A) |-> [j \in 1..Cols(B) |-> RSub[A[i][1], B[i][j]]]]

\* M.dot(v) for a 2-d M and a 1-d v, defined when the inner lengths agree
CanDot(M, v) == Cols(M) = Len(v)
Dot(M, v) ==
  [i \in 1..Rows(M) |-> RSum[[j \in 1..Cols(M) |-> RMul[M[i][j], v[j]]]]]

\* v - c for a scalar c
VSubScalar(v, c) == [i \in 1..Len(v) |-> RSub[v[i], c]]
\* a - b for 1-d arrays of one length
VSub(a, b) == [i \in 1..Len(a) |-> RSub[a[i], b[i]]]
VAbs(v) == [i \in 1..Len(v) |-> RAbs[v[i]]]

\* np.vstack of a pair of vectors is the 2-row matrix of them, and
\* np.amax(.., axis = 0) its column maxima
VStack(pair) == pair
AMax0(M) == [j \in 1..Cols(M) |-> RMaxOf[[i \in 1..Rows(M) |-> M[i][j]]]]

\* The matrix M without row 1 and column j
Minor(M, j) ==
  [i \in 1..(Rows(M) - 1) |->
     [k \in 1..(Cols(M) - 1) |-> IF k < j THEN M[i + 1][k] ELSE M[i + 1][k + 1]]]

RECURSIVE Det(_)
Det(M) ==
  IF Rows(M) = 1 THEN M[1][1]
  ELSE RSum[[j \in 1..Cols(M) |->
               RMul[IF j % 2 = 1 THEN M[1][j] ELSE RNeg[M[1][j]], Det(Minor(M, j))]]]

\* M with column j replaced by the vector b
ReplaceCol(M, j, b) ==
  [i \in 1..Rows(M) |-> [k \in 1..Cols(M) |-> IF k = j THEN b[i] ELSE M[i][k]]]

\* The outcome of a call: a value, or the exception raised
Ok(v) == [err |-> "", val |-> v]
Raise(e) == [err |-> e, val |-> <<>>]

\* numpy.linalg.solve(A, b): the x with A x = b; it raises LinAlgError when A
\* is not square or is singular, ValueError when b does not fit A.
Solve(A, b) ==
  IF Rows(A) # Cols(A) THEN Raise("LinAlgError")
  ELSE IF Len(b) # Rows(A) THEN Raise("ValueError")
  ELSE LET d == Det(A)
       IN  IF d = Zero THEN Raise("LinAlgError")
           ELSE Ok([j \in 1..Rows(A) |-> RDiv[Det(ReplaceCol(A, j, b)), d]])

-----------------------------------------------------------------------------
(* Inputs.                                                                 *)

Betas == {<<1, 2>>, <<3, 4>>}
Gammas == {0, 2}
\* A two-state chain whose second state is absorbing, and a one-state chain
Absorbing2 == <<<<<<1, 2>>, <<1, 2>>>>, <<Zero, One>>>>
Single1 == <<<<One>>>>
Matrices == {Absorbing2, Single1}
GrowthVectors ==
  {<<<<2, 1>>, One>>, <<<<1, 2>>, One>>, <<<<1, 2>>>>, <<One, One, One>>}
Zetas == {<<1, 1>>, <<2, 1>>}
Strikes == {<<0, 1>>, <<2, 1>>, <<100, 1>>}
Tolerances == {NegInf, <<-1, 1>>, Zero, <<1, 4>>, One, PosInf}
Horizons == {{}, {0, 2}, 0..9}
Retries == {NegInf, Zero, <<1, 4>>}

-----------------------------------------------------------------------------
(* The engine.  Its arrays P and s live on the heap at addresses 1 and 2.  *)

\* AssetPrices.__init__: stores the arguments as given and reads n off P.
\* No check relates the length of s to the shape of P.
Construct(beta, P, s, gamma) ==
  [beta |-> beta, gamma |-> gamma, P |-> 1, s |-> 2, n |-> Rows(P)]

\* `M * v` with M at address a: numpy allocates the product as a new array,
\* the last of the heap returned
TimesInPlace(h, a, v) ==
  Append([h EXCEPT ![a] = MulBroadcast(h[a], v)], MulBroadcast(h[a], v))
Times(h, a, v) == Append(h, MulBroadcast(h[a], v))

\* Leaving a method frees the arrays only its local names held: the heap
\* shrinks back to its first k arrays
Release(h, k) == SubSeq(h, 1, k)

\* tree_price, evaluated on heap h: the heap it leaves and what it returns
TreePriceMissingBeta(beta, A, b) == Solve(A, b)
TreePriceSolve(beta, A, b) ==
  LET x == Solve(A, b)
  IN  IF x.err # "" THEN x ELSE Ok(VScale(beta, x.val))

TreePriceEval(h) ==
  LET beta == engine.beta
      gamma == engine.gamma
  IN  IF ~CanBroadcast(h[engine.P], h[engine.s])
        THEN [heap |-> h, res |-> Raise("ValueError")]
      ELSE
        LET h1 == Times(h, engine.P, VPow(h[engine.s], 1 - gamma))
            P_tilde == h1[Len(h1)]
            I == Identity(engine.n)
            O == Ones(engine.n)
        IN  [heap |-> Release(h1, Len(h)),
             res |-> IF ~CanMSub(I, P_tilde) \/ ~CanDot(P_tilde, O)
                       THEN Raise("ValueError")
                     ELSE TreePriceSolve(beta, MSub(I, MScale(beta, P_tilde)),
                                         Dot(P_tilde, O))]

\* consol_price(zeta), evaluated on heap h
ConsolPriceEval(h, zeta) ==
  LET beta == engine.beta
      gamma == engine.gamma
  IN  IF ~CanBroadcast(h[engine.P], h[engine.s])
        THEN [heap |-> h, res |-> Raise("ValueError")]
      ELSE
        LET h1 == Times(h, engine.P, VPow(h[engine.s], -gamma))
            Pc == h1[Len(h1)]
            I == Identity(engine.n)
            O == Ones(engine.n)
        IN  [heap |-> Release(h1, Len(h)),
             res |-> IF ~CanMSub(I, Pc) \/ ~CanDot(Pc, VScale(zeta, O))
                       THEN Raise("ValueError")
                     ELSE LET x == Solve(MSub(I, MScale(beta, Pc)),
                                         Dot(Pc, VScale(zeta, O)))
                          IN  IF x.err # "" THEN x ELSE Ok(VScale(beta, x.val))]

-----------------------------------------------------------------------------
(* call_option, step by step.                                              *)

NoArgs == [zeta |-> Zero, p_s |-> Zero, T |-> {}, epsilon |-> Zero]
NoDict == [k \in {} |-> 0]

\* error = epsilon + 1
InitialError(epsilon) == RAdd[epsilon, One]

\* while error > epsilon
WhileCondGe(err, epsilon) == RGe[err, epsilon]
WhileCondMagnitude(err, epsilon) == RGt[RAbs[err], RAbs[epsilon]]
WhileCond(err, epsilon) == RGt[err, epsilon]

\* if t in T: w_bars[t] = w_bar   (the dictionary holds the array itself)
SnapshotAlways(d, time, T, a) ==
  [k \in DOMAIN d \cup {time} |-> IF k = time THEN a ELSE d[k]]
Snapshot(d, time, T, a) ==
  IF time \in T
    THEN [k \in DOMAIN d \cup {time} |-> IF k = time THEN a ELSE d[k]]
    ELSE d

\* to_stack = (beta*P_check.dot(w_bar), v_bar-p_s)
\* w_bar_new = np.amax(np.vstack(to_stack), axis = 0)
NewIterateMin(beta, Pc, w, vbar, p_s) ==
  LET c == VScale(beta, Dot(Pc, w))
      x == VSubScalar(vbar, p_s)
  IN  [i \in 1..Len(w) |-> IF RGt[c[i], x[i]] THEN x[i] ELSE c[i]]
NewIterate(beta, Pc, w, vbar, p_s) ==
  LET to_stack == <<VScale(beta, Dot(Pc, w)), VSubScalar(vbar, p_s)>>
  IN  AMax0(VStack(to_stack))

\* error = np.amax(np.abs(w_bar-w_bar_new))
ErrorOfSigned(w, w_new) == RMaxOf[VSub(w, w_new)]
ErrorOfNew(w, w_new) == RMaxOf[VAbs(w_new)]
ErrorOf(w, w_new) == RMaxOf[VAbs(VSub(w, w_new))]

\* w_bar = w_bar_new: the new array is an object of its own, at the end of
\* the heap, and the name w_bar is bound to it
BindOverwrite(h, a, w_new) == Append([h EXCEPT ![a] = w_new], w_new)
Bind(h, a, w_new) == Append(h, w_new)

\* Lines 145-153 on heap h: either an exception leaves the method, or the
\* loop is entered
Enter(zeta, p_s, T, epsilon, h) ==
  IF ~CanBroadcast(h[engine.P], h[engine.s])
    THEN /\ heap' = h
         /\ pc' = "ready"
         /\ args' = NoArgs
         /\ ret' = [op |-> "call_option"] @@ Raise("ValueError")
         /\ P_check' = 0 /\ v_bar' = <<>> /\ w_bar' = 0 /\ error' = Zero
         /\ t' = 0 /\ w_bars' = NoDict /\ hist' = <<>>
  ELSE
    LET h1 == Times(h, engine.P, VPow(h[engine.s], -engine.gamma))
        c == ConsolPriceEval(h1, zeta)
    IN  IF c.res.err # ""
          THEN /\ heap' = Release(c.heap, Len(h))
               /\ pc' = "ready"
               /\ args' = NoArgs
               /\ ret' = [op |-> "call_option"] @@ c.res
               /\ P_check' = 0 /\ v_bar' = <<>> /\ w_bar' = 0 /\ error' = Zero
               /\ t' = 0 /\ w_bars' = NoDict /\ hist' = <<>>
        ELSE /\ heap' = Append(c.heap, Zeros(engine.n))
             /\ pc' = "loop"
             /\ args' = [zeta |-> zeta, p_s |-> p_s, T |-> T, epsilon |-> epsilon]
             /\ ret' = [op |-> "call_option", err |-> "", val |-> <<>>]
             /\ P_check' = Len(h1)
             /\ v_bar' = c.res.val
             /\ w_bar' = Len(c.heap) + 1
             /\ error' = InitialError(epsilon)
             /\ t' = 0
             /\ w_bars' = NoDict
             /\ hist' = <<Zeros(engine.n)>>

\* A call of call_option(zeta, p_s, T, epsilon)
CallOption(zeta, p_s, T, epsilon) ==
  /\ pc = "ready"
  /\ Enter(zeta, p_s, T, epsilon, Release(heap, 2))
  /\ UNCHANGED <<engine, kept>>

\* One pass of the while loop's body, lines 155-164
LoopBody ==
  /\ pc = "loop"
  /\ WhileCond(error, args.epsilon)
  /\ t < MaxIter
  /\ \E w_bar_new \in {NewIterate(engine.beta, heap[P_check], heap[w_bar],
                                   v_bar, args.p_s)} :
       /\ w_bars' = Snapshot(w_bars, t, args.T, w_bar)
       /\ error' = ErrorOf(heap[w_bar], w_bar_new)
       /\ heap' = Bind(heap, w_bar, w_bar_new)
       /\ w_bar' = Len(heap) + 1
       /\ hist' = Append(hist, w_bar_new)
       /\ t' = t + 1
  /\ UNCHANGED <<engine, pc, args, P_check, v_bar, ret, kept>>

\* The loop test fails and line 166 returns (w_bar, w_bars)
Return ==
  /\ pc = "loop"
  /\ ~WhileCond(error, args.epsilon)
  /\ pc' = "returned"
  /\ ret' = [op |-> "call_option", err |-> "", val |-> heap[w_bar]]
  /\ UNCHANGED <<engine, heap, args, P_check, v_bar, w_bar, error, t, w_bars,
                 hist, kept>>

\* A call of tree_price()
TreePrice ==
  /\ pc = "ready"
  /\ LET r == TreePriceEval(Release(heap, 2))
     IN  /\ heap' = r.heap
         /\ ret' = [op |-> "tree_price"] @@ r.res
  /\ pc' = "ready"
  /\ args' = NoArgs
  /\ P_check' = 0 /\ v_bar' = <<>> /\ w_bar' = 0 /\ error' = Zero
  /\ t' = 0 /\ w_bars' = NoDict /\ hist' = <<>>
  /\ UNCHANGED <<engine, kept>>

\* A call of consol_price(zeta)
ConsolPrice(zeta) ==
  /\ pc = "ready"
  /\ LET r == ConsolPriceEval(Release(heap, 2), zeta)
     IN  /\ heap' = r.heap
         /\ ret' = [op |-> "consol_price"] @@ r.res
  /\ pc' = "ready"
  /\ args' = [NoArgs EXCEPT !.zeta = zeta]
  /\ P_check' = 0 /\ v_bar' = <<>> /\ w_bar' = 0 /\ error' = Zero
  /\ t' = 0 /\ w_bars' = NoDict /\ hist' = <<>>
  /\ UNCHANGED <<engine, kept>>

\* The caller keeps what call_option returned and calls it again with the
\* same zeta, p_s and T and another tolerance
CallAgain(epsilon) ==
  /\ pc = "returned"
  /\ kept = <<>>
  /\ kept' = <<[epsilon |-> args.epsilon, N |-> t, w_bar |-> w_bar,
                w_bars |-> w_bars, hist |-> hist]>>
  /\ Enter(args.zeta, args.p_s, args.T, epsilon, heap)
  /\ UNCHANGED engine

\* The caller lets go of what call_option returned: the arrays that only the
\* result and the finished call held are freed
Discard ==
  /\ pc = "returned"
  /\ pc' = "ready"
  /\ heap' = Release(heap, 2)
  /\ args' = NoArgs
  /\ P_check' = 0 /\ v_bar' = <<>> /\ w_bar' = 0 /\ error' = Zero
  /\ t' = 0 /\ w_bars' = NoDict /\ hist' = <<>>
  /\ ret' = [op |-> "call_option", err |-> "", val |-> <<>>]
  /\ kept' = <<>>
  /\ UNCHANGED engine

Init ==
  /\ \E beta \in Betas, P \in Matrices, s \in GrowthVectors, gamma \in Gammas :
       /\ engine = Construct(beta, P, s, gamma)
       /\ heap = <<P, s>>
  /\ pc = "ready"
  /\ args = NoArgs
  /\ P_check = 0 /\ v_bar = <<>> /\ w_bar = 0 /\ error = Zero
  /\ t = 0 /\ w_bars = NoDict /\ hist = <<>>
  /\ ret = [op |-> "__init__", err |-> "", val |-> <<>>]
  /\ kept = <<>>

Next ==
  \/ TreePrice
  \/ \E zeta \in Zetas : ConsolPrice(zeta)
  \/ \E zeta \in Zetas, p_s \in Strikes, T \in Horizons, epsilon \in Tolerances :
       CallOption(zeta, p_s, T, epsilon)
  \/ LoopBody
  \/ Return
  \/ \E epsilon \in Retries : CallAgain(epsilon)
  \/ Discard

Spec == Init /\ [][Next]_vars

\* The sequential program keeps running: a loop pass or the return that can be
\* taken is taken
SpecFair == Spec /\ WF_vars(LoopBody) /\ WF_vars(Return)

-----------------------------------------------------------------------------
(* The claims.  What they speak of, stated from the engine's parameters.   *)

InCall == pc \in {"loop", "returned"}
Returned == pc = "returned"
VLe(a, b) == \A i \in 1..Len(a) : RLe[a[i], b[i]]
VLt(a, b) == VLe(a, b) /\ a # b

\* P_check[i,j] = P[i,j] * s[j]^(-gamma); an s of length 1 serves every j
ClaimPCheck ==
  LET P == heap[engine.P]
      s == heap[engine.s]
  IN  [i \in 1..engine.n |-> [j \in 1..engine.n |->
         RMul[P[i][j], RPow[s[IF Len(s) = 1 THEN 1 ELSE j], -engine.gamma]]]]

\* P_tilde[i,j] = P[i,j] * s[j]^(1-gamma)
ClaimPTilde ==
  LET P == heap[engine.P]
      s == heap[engine.s]
  IN  [i \in 1..engine.n |-> [j \in 1..engine.n |->
         RMul[P[i][j], RPow[s[IF Len(s) = 1 THEN 1 ELSE j], 1 - engine.gamma]]]]

RowSum(M, i) == RSum[[j \in 1..Len(M[i]) |-> M[i][j]]]

RECURSIVE ClaimIterate(_)
\* w_0 = 0 and w_{k+1}[i] = max(beta * (P_check . w_k)[i], p_bar[i] - p_s)
ClaimIterate(k) ==
  IF k = 0 THEN [i \in 1..engine.n |-> Zero]
  ELSE LET w == ClaimIterate(k - 1)
       IN  [i \in 1..engine.n |->
              RMax[RMul[engine.beta,
                        RSum[[j \in 1..engine.n |-> RMul[ClaimPCheck[i][j], w[j]]]]],
                   RSub[v_bar[i], args.p_s]]]

\* max_i |w_k[i] - w_{k-1}[i]| over the iterates the call went through, k >= 1
Change(k) ==
  RMaxOf[[i \in 1..engine.n |-> RAbs[RSub[hist[k + 1][i], hist[k][i]]]]]

\* C1: every entry of the snapshot map under a key k holds the iterate w_k of
\* the recurrence, the value before the k-th update, at the time it is stored
\* and at every later time of the call; the entry under key 0 is all zeros.
C1_SnapshotIsIterate ==
  InCall =>
    \A k \in DOMAIN w_bars :
      /\ heap[w_bars[k]] = ClaimIterate(k)
      /\ k = 0 => heap[w_bars[k]] = Zeros(engine.n)

C1_Witness ==
  /\ Returned
  /\ DOMAIN w_bars = {0, 2}
  /\ t = 3
  /\ heap[w_bars[2]] # heap[w_bars[0]]
  /\ heap[w_bar] # heap[w_bars[2]]

\* C2: when call_option returns after N >= 1 updates, the keys of the snapshot
\* map are exactly the members of T from 0 to N-1.
C2_KeysReached ==
  (Returned /\ t >= 1) => DOMAIN w_bars = {k \in args.T : 0 <= k /\ k <= t - 1}

C2_Witness ==
  /\ Returned
  /\ t = 2
  /\ args.T = {0, 2}
  /\ DOMAIN w_bars = {0}

\* C3 as stated, for the tolerances above 0: call_option returns after N >= 1
\* updates, the N-th change is <= epsilon and every earlier change is > epsilon.
C3_Original ==
  (Returned /\ RGt[args.epsilon, Zero]) =>
    /\ t >= 1
    /\ RLe[Change(t), args.epsilon]
    /\ \A k \in 1..(t - 1) : RGt[Change(k), args.epsilon]

\* C3 amended: for a finite epsilon the call goes on while every change so far
\* is > epsilon, and returns after N >= 1 updates with the N-th change
\* <= epsilon; for an infinite epsilon it returns before any update.
C3_StopsAtFirstSmallChange ==
  InCall =>
    IF IsFinite(args.epsilon)
      THEN /\ \A k \in 1..(t - 1) : RGt[Change(k), args.epsilon]
           /\ Returned => t >= 1 /\ RLe[Change(t), args.epsilon]
      ELSE t = 0

C3_Witness ==
  /\ Returned
  /\ IsFinite(args.epsilon)
  /\ t = 3
  /\ RGt[Change(2), args.epsilon]
  /\ RLe[Change(3), args.epsilon]

\* C4: the iterates never decrease in any component, and so the snapshots at
\* t1 < t2 and the returned vector are ordered the same way.
C4_Monotone ==
  InCall =>
    /\ \A k \in 1..t : VLe(hist[k], hist[k + 1])
    /\ \A k1, k2 \in DOMAIN w_bars :
         k1 < k2 => /\ VLe(heap[w_bars[k1]], heap[w_bars[k2]])
                    /\ VLe(heap[w_bars[k2]], heap[w_bar])

C4_Witness ==
  /\ Returned
  /\ t = 3
  /\ DOMAIN w_bars = {0, 1, 2}
  /\ VLt(heap[w_bars[0]], heap[w_bars[1]])
  /\ VLt(heap[w_bars[1]], heap[w_bars[2]])
  /\ VLt(heap[w_bars[2]], heap[w_bar])

\* C5: no engine exists whose s has a length other than n.
C5_DimensionsChecked == Len(heap[engine.s]) = engine.n

EngineValue ==
  <<engine.beta, engine.gamma, engine.n, heap[engine.P], heap[engine.s]>>

C7_ParametersUnchanged == [][EngineValue' = EngineValue]_vars

C7_Witness ==
  /\ pc = "ready"
  /\ ret.op = "call_option"
  /\ ret.err = "LinAlgError"

IsPrefix(a, b) == Len(a) <= Len(b) /\ SubSeq(b, 1, Len(a)) = a

\* C8 as stated: of two returned runs that differ only in epsilon, the one
\* with the larger epsilon makes no more updates, and its iterates are a
\* prefix of the other's.
C8_Original ==
  (Returned /\ kept # <<>>) =>
    /\ RLe[kept[1].epsilon, args.epsilon] =>
         t <= kept[1].N /\ IsPrefix(hist, kept[1].hist)
    /\ RLe[args.epsilon, kept[1].epsilon] =>
         kept[1].N <= t /\ IsPrefix(kept[1].hist, hist)

\* C8 amended: the same, for two finite tolerances.
C8_FewerUpdatesForLargerEpsilon ==
  (Returned /\ kept # <<>> /\ IsFinite(args.epsilon) /\ IsFinite(kept[1].epsilon)) =>
    /\ RLe[kept[1].epsilon, args.epsilon] =>
         t <= kept[1].N /\ IsPrefix(hist, kept[1].hist)
    /\ RLe[args.epsilon, kept[1].epsilon] =>
         kept[1].N <= t /\ IsPrefix(kept[1].hist, hist)

C8_Witness ==
  /\ Returned
  /\ kept # <<>>
  /\ kept[1].epsilon = One
  /\ args.epsilon = <<1, 4>>
  /\ kept[1].N = 1
  /\ t = 3

\* beta * P_tilde has every row sum below 1
TreeContraction == \A i \in 1..engine.n : RLt[RMul[engine.beta, RowSum(ClaimPTilde, i)], One]
TreeReturned == ret.op = "tree_price" /\ ret.err = ""

\* C9 as stated: every entry of the vector tree_price returns is >= 0.
C9_Original ==
  TreeReturned => \A i \in 1..engine.n : RGe[ret.val[i], Zero]

\* C9 amended: the vector tree_price returns solves v = beta * P_tilde (1 + v),
\* and its entries are >= 0 when every row sum of beta * P_tilde is below 1.
C9_TreePriceNonNegative ==
  TreeReturned =>
    /\ \A i \in 1..engine.n :
         ret.val[i] =
           RMul[engine.beta,
                RSum[[j \in 1..engine.n |->
                        RMul[ClaimPTilde[i][j], RAdd[One, ret.val[j]]]]]]
    /\ TreeContraction => \A i \in 1..engine.n : RGe[ret.val[i], Zero]

C9_Witness ==
  /\ TreeReturned
  /\ TreeContraction
  /\ engine.n = 2
  /\ engine.gamma = 2
  /\ ret.val[1] # ret.val[2]
  /\ RGt[ret.val[1], Zero]

\* beta * P_check has every row sum below 1
Contraction == \A i \in 1..engine.n : RLt[RMul[engine.beta, RowSum(ClaimPCheck, i)], One]

\* C10: a call with epsilon > 0 on an engine whose beta * P_check has every
\* row sum below 1 returns.
C10_Terminates ==
  (pc = "loop" /\ RGt[args.epsilon, Zero] /\ Contraction) ~> Returned

C10_Witness ==
  /\ Returned
  /\ IsFinite(args.epsilon)
  /\ RGt[args.epsilon, Zero]
  /\ Contraction
  /\ t = 3

====
